---- MODULE Spec2Model ----
(***************************************************************************)
(* mpl.py: a curses file browser that launches mpv.                        *)
(*                                                                         *)
(* Strings of the program are sequences of one-character strings, so that  *)
(* splitting, case folding, substring search and extension extraction are  *)
(* computed as the code computes them.  A path is the sequence of its      *)
(* components below the root: "/m/2.mp3" is <<nM, n2>>, "/" is <<>>.       *)
(* current_message is written by the handlers and read only by draw; it    *)
(* decides nothing and is left out of the state.                           *)
(***************************************************************************)
EXTENDS Integers, Sequences, FiniteSets, TLC

\* ---------------------------------------------------------------- bounds
MaxLines == 2      \* largest avail_lines of the application
MaxText == 1       \* longest filter_text that can be typed
MaxStale == 1      \* how far past the end of the list input_down may run
MaxSpawn == 2      \* number of mpv processes started in one run
MaxN == 12         \* longest list of the viewport specification
MaxR == 6          \* largest avail_lines of the viewport specification

\* ------------------------------------------------------------ characters
Upper == <<"A","B","C","D","E","F","G","H","I","J","K","L","M",
           "N","O","P","Q","R","S","T","U","V","W","X","Y","Z">>
Lower == <<"a","b","c","d","e","f","g","h","i","j","k","l","m",
           "n","o","p","q","r","s","t","u","v","w","x","y","z">>

SPACE_CHAR == " "
Whitespace == {" ", "\t", "\n", "\r"}

CasefoldChar(c) ==
    IF \E i \in 1..26 : Upper[i] = c
    THEN Lower[CHOOSE i \in 1..26 : Upper[i] = c]
    ELSE c

Casefold(s) == [i \in 1..Len(s) |-> CasefoldChar(s[i])]

Front(s) == SubSeq(s, 1, Len(s) - 1)

Last(s) == s[Len(s)]

\* str.strip(chars) and str.lstrip(chars)
LStrip(s, chars) ==
    LET keep == {i \in 1..Len(s) : s[i] \notin chars}
    IN  IF keep = {} THEN <<>>
        ELSE SubSeq(s, CHOOSE i \in keep : \A j \in keep : i <= j, Len(s))

RStrip(s, chars) ==
    LET keep == {i \in 1..Len(s) : s[i] \notin chars}
    IN  IF keep = {} THEN <<>>
        ELSE SubSeq(s, 1, CHOOSE i \in keep : \A j \in keep : j <= i)

Strip(s, chars) == RStrip(LStrip(s, chars), chars)

\* set(term.split(split_char))
SplitSet(term, split_char) ==
    LET cuts == {0, Len(term) + 1} \cup {i \in 1..Len(term) : term[i] = split_char}
    IN  {SubSeq(term, a + 1, b - 1) :
            <<a, b>> \in {p \in cuts \X cuts :
                            /\ p[1] < p[2]
                            /\ \A c \in cuts : ~(p[1] < c /\ c < p[2])}}

\* w in text
IsSubstring(w, text) ==
    \E i \in 0..(Len(text) - Len(w)) : SubSeq(text, i + 1, i + Len(w)) = w

\* search_by_words that returns "hit > 0"
search_by_words_any(term, text) ==
    LET term_set == SplitSet(Casefold(term), SPACE_CHAR)
        hits == {w \in term_set : IsSubstring(Strip(w, Whitespace), Casefold(text))}
    IN  Cardinality(hits) > 0

search_by_words(term, text) ==
    LET term_set == SplitSet(Casefold(term), SPACE_CHAR)
        hits == {w \in term_set : IsSubstring(Strip(w, Whitespace), Casefold(text))}
    IN  Cardinality(term_set) = Cardinality(hits)

\* ------------------------------------------------------------ extensions
AUDIO_EXTS == {<<"a","a","c">>, <<"f","l","a","c">>, <<"m","4","a">>, <<"m","p","3">>,
               <<"o","g","g">>, <<"w","a","v">>, <<"w","m","a">>}
VIDEO_EXTS == {<<"a","v","i">>, <<"i","s","o">>, <<"m","k","v">>, <<"m","o","v">>,
               <<"m","p","4">>, <<"w","e","b","m">>, <<"w","m","v">>}
OTHER_EXTS == {<<"c","u","e">>, <<"m","3","u">>, <<"m","3","u","8">>}
SUB_EXTS == {<<"a","s","s">>, <<"i","d","x">>, <<"l","r","c">>, <<"s","r","t">>,
             <<"s","u","b">>, <<"v","t","t">>}
MPV_EXTENSIONS == AUDIO_EXTS \cup VIDEO_EXTS \cup OTHER_EXTS \cup SUB_EXTS

ISO_EXT == <<"i","s","o">>

\* Sizes are counted in units of 10 bytes: 8500000000 bytes
DVD9_SIZE == 850000000

IGNORED_NAMES == {<<"l","o","s","t","+","f","o","u","n","d">>, <<".","g","i","t">>}

\* os.path.splitext(name)[1].lstrip(".")
get_ext(name) ==
    LET dots == {i \in 1..Len(name) : name[i] = "."}
        dotIndex == IF dots = {} THEN 0 ELSE CHOOSE i \in dots : \A j \in dots : j <= i
        ext == IF dotIndex > 0 /\ \E j \in 1..(dotIndex - 1) : name[j] # "."
               THEN SubSeq(name, dotIndex, Len(name))
               ELSE <<>>
    IN  LStrip(ext, {"."})

is_hidden(name) == Len(name) > 0 /\ name[1] = "."

\* ------------------------------------------------------------ file system
\* The directory tree the program runs in.  Every listing is given in the
\* order natsorted(os.listdir(...)) returns it.
Dot == <<".">>
DotDot == <<".", ".">>

nGit == <<".","g","i","t">>
nH == <<".","h">>
nE == <<"E",".","M","P","3">>
nB == <<"b">>
nL == <<"l">>
nLF == <<"l","o","s","t","+","f","o","u","n","d">>
nM == <<"m">>
nTxt == <<"n",".","t","x","t">>
nSrt == <<"s",".","s","r","t">>
nIso == <<"v",".","i","s","o">>
nZ == <<"z",".","m","p","3">>
nX == <<".","x">>
nGIT == <<".","G","I","T">>
nLostFound == <<"L","o","s","t","+","F","o","u","n","d">>
nFooBar == <<"F","o","o"," ","B","a","r",".","m","p","3">>
nA == <<"a",".","t","x","t">>
nFoo == <<"f","o","o">>
nV == <<"v",".","m","k","v">>
nXbar == <<"x","b","a","r","f","o","o","y">>
n2 == <<"2",".","m","p","3">>

\* one directory entry: its name, os.path.isdir and os.stat(...).st_size
\* (in units of 10 bytes)
Ent(name, is_dir, size) == [name |-> name, is_dir |-> is_dir, size |-> size]

Dirs == {<<>>, <<nGit>>, <<nH>>, <<nB>>, <<nLF>>, <<nM>>, <<nM, nX>>,
         <<nLF, nGIT>>, <<nLF, nGit>>, <<nLF, nLostFound>>, <<nLF, nA>>,
         <<nLF, nLF>>, <<nLF, nV>>}

\* /.h is a directory the user may not read: os.listdir raises PermissionError
Unreadable == {<<nH>>}

\* /b/l is a symbolic link to nothing: os.listdir names it and os.stat raises
\* FileNotFoundError
Dangling == {<<nB, nL>>}

DirContent(path) ==
    CASE path = <<>> ->
            << Ent(nGit, TRUE, 4096), Ent(nH, TRUE, 4096), Ent(nE, FALSE, 700),
               Ent(nB, TRUE, 4096), Ent(nLF, TRUE, 4096),
               Ent(nM, TRUE, 4096), Ent(nTxt, FALSE, 10), Ent(nSrt, FALSE, 20),
               Ent(nIso, FALSE, 900000000), Ent(nZ, FALSE, 0) >>
      [] path = <<nM>> -> << Ent(nX, TRUE, 4096), Ent(n2, FALSE, 200) >>
      [] path = <<nB>> -> << Ent(nL, FALSE, 0) >>
      [] path = <<nLF>> ->
            << Ent(nGIT, TRUE, 4096), Ent(nGit, TRUE, 4096),
               Ent(nFooBar, FALSE, 300), Ent(nLostFound, TRUE, 4096),
               Ent(nA, TRUE, 4096), Ent(nFoo, FALSE, 50),
               Ent(nLF, TRUE, 4096), Ent(nV, TRUE, 4096),
               Ent(nXbar, FALSE, 60) >>
      [] OTHER -> <<>>

\* os.path.isdir(path) and os.path.isfile(path) of an absolute path
IsDir(path) == path \in Dirs

IsFile(path) ==
    /\ path # <<>>
    /\ Front(path) \in Dirs
    /\ \E i \in 1..Len(DirContent(Front(path))) :
          /\ DirContent(Front(path))[i].name = Last(path)
          /\ ~DirContent(Front(path))[i].is_dir

\* the directories the program may be started in, and the paths its
\* last_item file may hold at start ("" is <<>>)
StartDirs == {<<>>, <<nH>>, <<nM>>, <<nM, nX>>}
StoredItems == {<<>>, <<nM, n2>>}

\* ------------------------------------------------------------------- Navi
\* current_dir is only ever read through get_current_dir(), which joins
\* the segments and normalises the result (os.path.abspath).  The state keeps
\* that absolute path, current_dir; cd appends one segment to it and
\* normalises again, which gives the path the code would compute from the
\* whole segment list.

\* os.path.normpath of acc followed by the segments parts
RECURSIVE NormFrom(_, _)
NormFrom(parts, acc) ==
    IF parts = <<>> THEN acc
    ELSE LET h == Head(parts)
         IN  NormFrom(Tail(parts),
                      IF h = Dot \/ h = <<>> THEN acc
                      ELSE IF h = DotDot
                           THEN (IF acc = <<>> THEN acc ELSE Front(acc))
                           ELSE Append(acc, h))

\* Navi.set_current_dir
set_current_dir(dir, path) ==
    IF IsDir(path) THEN NormFrom(path, <<>>) ELSE dir

\* Navi.cd; name.strip("/") leaves a directory entry's name as it is
cd(dir, name) ==
    IF name = Dot THEN dir ELSE NormFrom(<<name>>, dir)

up(dir) == cd(dir, DotDot)

\* refresh_fd_list that skips no name
RECURSIVE SelectEnts_no_ignore(_, _)
SelectEnts_no_ignore(ents, dir) ==
    IF ents = <<>> THEN <<>>
    ELSE LET e == Head(ents)
             rest == SelectEnts_no_ignore(Tail(ents), dir)
         IN  IF Append(dir, e.name) \in Dangling THEN <<>>
             ELSE IF e.size = 0 THEN rest
             ELSE << [is_dir |-> e.is_dir, name |-> e.name,
                      full |-> Append(dir, e.name), size |-> e.size] >> \o rest

\* the loop of refresh_fd_list over the listed names: what it appends to
\* fd_list, up to the entry whose os.stat raises
RECURSIVE SelectEnts(_, _)
SelectEnts(ents, dir) ==
    IF ents = <<>> THEN <<>>
    ELSE LET e == Head(ents)
             rest == SelectEnts(Tail(ents), dir)
         IN  IF e.name \in IGNORED_NAMES THEN rest
             ELSE IF Append(dir, e.name) \in Dangling THEN <<>>
             ELSE IF e.size = 0 THEN rest
             ELSE << [is_dir |-> e.is_dir, name |-> e.name,
                      full |-> Append(dir, e.name), size |-> e.size] >> \o rest

\* os.listdir(dir) raises PermissionError, FileNotFoundError or
\* NotADirectoryError, which refresh_fd_list catches
ListdirRaises(dir) == ~IsDir(dir) \/ dir \in Unreadable

\* os.stat raises on an entry of dir that refresh_fd_list does not skip by its
\* name; nothing catches it
StatRaises(dir) ==
    /\ ~ListdirRaises(dir)
    /\ \E i \in 1..Len(DirContent(dir)) :
          /\ DirContent(dir)[i].name \notin IGNORED_NAMES
          /\ Append(dir, DirContent(dir)[i].name) \in Dangling

\* Navi.refresh_fd_list: the new fd_list; the list stays empty when
\* os.listdir raises
refresh_fd_list(dir) ==
    IF ListdirRaises(dir) THEN <<>> ELSE SelectEnts(DirContent(dir), dir)

\* ----------------------------------------------------------- NaviFiltered
\* refresh_fd_list_filtered whose extension test forgets "not item.is_dir"
Passes_ext_on_dirs(item, show_dirs, show_hidden, exts, text) ==
    /\ ~(~show_dirs /\ item.is_dir)
    /\ ~(~show_hidden /\ is_hidden(item.name))
    /\ ~(exts # {} /\ get_ext(item.name) \notin exts)
    /\ ~(text # <<>> /\ ~search_by_words(text, item.name))

Passes(item, show_dirs, show_hidden, exts, text) ==
    /\ ~(~show_dirs /\ item.is_dir)
    /\ ~(~show_hidden /\ is_hidden(item.name))
    /\ ~(exts # {} /\ ~item.is_dir /\ get_ext(item.name) \notin exts)
    /\ ~(text # <<>> /\ ~search_by_words(text, item.name))

\* NaviFiltered.refresh_fd_list_filtered: the new fd_list_filtered
refresh_fd_list_filtered(fdl, show_dirs, show_hidden, exts, text) ==
    SelectSeq(fdl, LAMBDA item : Passes(item, show_dirs, show_hidden, exts, text))

\* get_index_by_name that counts from 1
get_index_by_name_from_one(view, name) ==
    LET hits == {i \in 1..Len(view) : view[i].name = name}
    IN  IF hits = {} THEN -1
        ELSE CHOOSE i \in hits : \A j \in hits : i <= j

get_index_by_name(view, name) ==
    LET hits == {i \in 1..Len(view) : view[i].name = name}
    IN  IF hits = {} THEN -1
        ELSE (CHOOSE i \in hits : \A j \in hits : i <= j) - 1

\* -------------------------------------------------------------- launcher
\* The command line mpv_open builds: the pause flag, the --sub-file option
\* ("" when absent) and the quoted path.
mpv_open(path, sub, paused) ==
    [pause |-> paused, sub_file |-> sub, device |-> "file", path |-> path]

\* The command line mpv_open_iso builds: dvd:// or bd:// by the size.
mpv_open_iso(path, size, paused) ==
    [pause |-> paused, sub_file |-> <<>>,
     device |-> IF size < DVD9_SIZE THEN "dvd" ELSE "bd", path |-> path]

NoCmd == [pause |-> FALSE, sub_file |-> <<>>, device |-> "none", path |-> <<>>]

\* ------------------------------------------------------------------ state
VARIABLES
    current_dir,         \* Navi.get_current_dir(), from current_dir
    fd_list,             \* Navi.fd_list
    fd_list_filtered,    \* NaviFiltered.fd_list_filtered
    filter_show_dirs,    \* NaviFiltered.filter_show_dirs
    filter_show_hidden,  \* NaviFiltered.filter_show_hidden
    filter_exts,         \* NaviFiltered.filter_exts
    filter_text,         \* NaviFiltered.filter_text
    cursor,              \* App.cursor
    offset,              \* App.offset
    avail_lines,         \* App.avail_lines
    last_item,           \* App.last_item, also the content of last_item_file
    sub_path,            \* App.sub_path
    pids,                \* App.pids
    alive,               \* the started processes that process_exists finds
    spawned,             \* number of processes started so far
    loop,                \* App.loop: "running", "exited" (F12) or "crashed"
    wch,                 \* the key event input read last
    target,              \* the argument of set_cursor in that event, or NoTarget
    last_cmd,            \* the command exec_nonblocking started in that event, or NoCmd
    entered,             \* the name of the directory choose entered in that event, or <<>>
    sigterm,             \* the call of os.kill in that event, or NoSignal
    error                \* the exception that event raised out of loop(), or "none"

navi == <<current_dir, fd_list>>
filters == <<filter_show_dirs, filter_show_hidden, filter_exts, filter_text>>
viewport == <<cursor, offset, avail_lines>>
launcher == <<last_item, sub_path, pids, alive, spawned>>
event == <<wch, target, last_cmd, entered, sigterm, error>>
vars == <<navi, fd_list_filtered, filters, viewport, launcher, loop, event>>

NoTarget == 0 - 9

\* os.kill(pid, SIGTERM): delivered, or raised ProcessLookupError
NoSignal == [pid |-> 0, delivered |-> FALSE]

avail_lines_i == avail_lines - 1

get_index == cursor + offset

N == Len(fd_list_filtered)

\* ------------------------------------------------- viewport controller
\* Each operator gives <<cursor, offset>> after the method, for a list of
\* n entries and avail_lines = r.
reset_index == <<0, 0>>

input_down(c, o, n, r) ==
    IF c + o = n - 1 THEN <<c, o>>
    ELSE IF c + 1 > r - 1 THEN <<r - 1, o + 1>>
    ELSE <<c + 1, o>>

input_up(c, o) ==
    IF c + o = 0 THEN <<c, o>>
    ELSE IF c - 1 < 0 THEN <<0, o - 1>>
    ELSE <<c - 1, o>>

\* set_cursor with the "+ 1" of an odd avail_lines forgotten
set_cursor_no_adjust(c, o, n, r, index) ==
    LET list_i == n - 1
        al_i == r - 1
        mid == r \div 2
    IN  IF index < 0 \/ index > list_i THEN <<c, o>>
        ELSE IF 0 <= index /\ index <= al_i THEN <<index, 0>>
        ELSE IF list_i - al_i + 2 <= index /\ index <= list_i
             THEN <<al_i - (list_i - index), index - (al_i - (list_i - index))>>
        ELSE <<mid, index - (r - mid)>>

\* set_cursor whose last-page case counts from avail_lines, not avail_lines_i
set_cursor_off_by_one(c, o, n, r, index) ==
    LET list_i == n - 1
        al_i == r - 1
        mid == r \div 2
        rema == r - mid
    IN  IF index < 0 \/ index > list_i THEN <<c, o>>
        ELSE IF 0 <= index /\ index <= al_i THEN <<index, 0>>
        ELSE IF list_i - al_i + 2 <= index /\ index <= list_i
             THEN <<r - (list_i - index), index - (r - (list_i - index))>>
        ELSE <<mid, IF mid # rema THEN index - rema + 1 ELSE index - rema>>

\* set_cursor without its last-page case: every later target is centred
set_cursor_no_last_page(c, o, n, r, index) ==
    LET list_i == n - 1
        al_i == r - 1
        mid == r \div 2
        rema == r - mid
    IN  IF index < 0 \/ index > list_i THEN <<c, o>>
        ELSE IF 0 <= index /\ index <= al_i THEN <<index, 0>>
        ELSE <<mid, IF mid # rema THEN index - rema + 1 ELSE index - rema>>

\* set_cursor whose first-page case forgets "self.offset = 0"
set_cursor_keep_offset(c, o, n, r, index) ==
    LET list_i == n - 1
        al_i == r - 1
        mid == r \div 2
        rema == r - mid
    IN  IF index < 0 \/ index > list_i THEN <<c, o>>
        ELSE IF 0 <= index /\ index <= al_i THEN <<index, o>>
        ELSE IF list_i - al_i + 2 <= index /\ index <= list_i
             THEN <<al_i - (list_i - index), index - (al_i - (list_i - index))>>
        ELSE <<mid, IF mid # rema THEN index - rema + 1 ELSE index - rema>>

\* set_cursor whose last-page case sets offset from the old cursor (lines 459
\* and 460 in the other order)
set_cursor_swapped(c, o, n, r, index) ==
    LET list_i == n - 1
        al_i == r - 1
        mid == r \div 2
        rema == r - mid
    IN  IF index < 0 \/ index > list_i THEN <<c, o>>
        ELSE IF 0 <= index /\ index <= al_i THEN <<index, 0>>
        ELSE IF list_i - al_i + 2 <= index /\ index <= list_i
             THEN <<al_i - (list_i - index), index - c>>
        ELSE <<mid, IF mid # rema THEN index - rema + 1 ELSE index - rema>>

\* set_cursor that rejects only a negative index
set_cursor_no_upper_guard(c, o, n, r, index) ==
    LET list_i == n - 1
        al_i == r - 1
        mid == r \div 2
        rema == r - mid
    IN  IF index < 0 THEN <<c, o>>
        ELSE IF 0 <= index /\ index <= al_i THEN <<index, 0>>
        ELSE IF list_i - al_i + 2 <= index /\ index <= list_i
             THEN <<al_i - (list_i - index), index - (al_i - (list_i - index))>>
        ELSE <<mid, IF mid # rema THEN index - rema + 1 ELSE index - rema>>

set_cursor(c, o, n, r, index) ==
    LET list_i == n - 1
        al_i == r - 1
        lastpage_first_i == list_i - al_i
        mid == r \div 2
        rema == r - mid
    IN  IF index < 0 \/ index > list_i THEN <<c, o>>
        ELSE IF 0 <= index /\ index <= al_i THEN <<index, 0>>
        ELSE IF lastpage_first_i + 2 <= index /\ index <= list_i
             THEN <<al_i - (list_i - index), index - (al_i - (list_i - index))>>
        ELSE <<mid, IF mid # rema THEN index - rema + 1 ELSE index - rema>>

\* fixed_len_slice(data, max_len, offset): data[offset : max_len + offset]
\* with the offset brought into 0..len(data) - max_len
fixed_len_slice(data, max_len, off) ==
    IF Len(data) <= max_len THEN data
    ELSE LET hi == IF off < Len(data) - max_len THEN off ELSE Len(data) - max_len
             o == IF hi > 0 THEN hi ELSE 0
         IN  SubSeq(data, o + 1, o + max_len)

\* ------------------------------------------------------------------- App
\* the characters that can be typed into the name filter
TypeChars == {"m"}

basename(path) == IF path = <<>> THEN <<>> ELSE Last(path)

dirname(path) == IF path = <<>> THEN <<>> ELSE Front(path)

\* App.__init__: the terminal has avail_lines >= 1 rows for the list, last_item is
\* read from last_item_file, and restore_last_item or the two refreshes run.
Init ==
    /\ last_item \in StoredItems
    /\ avail_lines \in 1..MaxLines
    /\ filter_show_dirs = TRUE
    /\ filter_show_hidden = FALSE
    /\ filter_exts = MPV_EXTENSIONS
    /\ filter_text = <<>>
    /\ \E wd \in StartDirs :
          current_dir =
             IF IsFile(last_item)
             THEN set_current_dir(set_current_dir(<<>>, wd), dirname(last_item))
             ELSE set_current_dir(<<>>, wd)
    /\ fd_list = refresh_fd_list(current_dir)
    /\ fd_list_filtered =
          refresh_fd_list_filtered(fd_list, filter_show_dirs, filter_show_hidden,
                                   filter_exts, filter_text)
    /\ target = IF IsFile(last_item)
                THEN get_index_by_name(fd_list_filtered, basename(last_item))
                ELSE NoTarget
    /\ cursor = IF IsFile(last_item)
                THEN set_cursor(0, 0, Len(fd_list_filtered), avail_lines, target)[1]
                ELSE 0
    /\ offset = IF IsFile(last_item)
                THEN set_cursor(0, 0, Len(fd_list_filtered), avail_lines, target)[2]
                ELSE 0
    /\ sub_path = <<>>
    /\ pids = <<>>
    /\ alive = {}
    /\ spawned = 0
    /\ last_cmd = NoCmd
    /\ entered = <<>>
    /\ sigterm = NoSignal
    /\ error = "none"
    /\ loop = "running"
    /\ wch = "none"

\* input read the key event k
Read(k) ==
    /\ loop = "running"
    /\ wch' = k

\* the event entered no directory, sent no signal and raised nothing
Quiet ==
    /\ entered' = <<>>
    /\ sigterm' = NoSignal
    /\ error' = "none"

\* the event called neither set_cursor nor exec_nonblocking
Plain ==
    /\ target' = NoTarget
    /\ last_cmd' = NoCmd
    /\ Quiet

\* refresh_fd_list() then refresh_fd_list_filtered(), from the new directory
\* and the new filters
Relist ==
    /\ fd_list' = refresh_fd_list(current_dir')
    /\ fd_list_filtered' =
          refresh_fd_list_filtered(fd_list', filter_show_dirs', filter_show_hidden',
                                   filter_exts', filter_text')

\* refresh_fd_list_filtered() alone
Refilter ==
    /\ fd_list' = fd_list
    /\ fd_list_filtered' =
          refresh_fd_list_filtered(fd_list, filter_show_dirs', filter_show_hidden',
                                   filter_exts', filter_text')

\* set_cursor(index) on the new list with the new avail_lines
Jump(index) ==
    /\ target' = index
    /\ last_cmd' = NoCmd
    /\ Quiet
    /\ cursor' = set_cursor(cursor, offset, Len(fd_list_filtered'), avail_lines', index)[1]
    /\ offset' = set_cursor(cursor, offset, Len(fd_list_filtered'), avail_lines', index)[2]

Reset ==
    /\ Plain
    /\ cursor' = reset_index[1]
    /\ offset' = reset_index[2]

\* exec_nonblocking(cmd) returned a pid, which is appended to pids
Started(cmd) ==
    /\ spawned < MaxSpawn
    /\ spawned' = spawned + 1
    /\ pids' = Append(pids, spawned')
    /\ alive' = alive \cup {spawned'}
    /\ last_cmd' = cmd
    /\ target' = NoTarget
    /\ Quiet

\* exec_nonblocking(cmd) raised (Popen finds no program to run): nothing
\* catches it, run() ends the program
Raised ==
    /\ spawned < MaxSpawn
    /\ loop' = "crashed"
    /\ target' = NoTarget
    /\ last_cmd' = NoCmd
    /\ entered' = <<>>
    /\ sigterm' = NoSignal
    /\ error' = "OSError"
    /\ UNCHANGED <<navi, fd_list_filtered, filters, viewport, launcher>>

\* refresh_fd_list() of the new directory raised in os.stat: fd_list holds
\* the entries appended so far, the rest of the handler is not run and
\* nothing catches the exception, run() ends the program
ListFailed ==
    /\ StatRaises(current_dir')
    /\ fd_list' = refresh_fd_list(current_dir')
    /\ UNCHANGED <<fd_list_filtered, cursor, offset>>
    /\ loop' = "crashed"
    /\ target' = NoTarget
    /\ last_cmd' = NoCmd
    /\ entered' = <<>>
    /\ sigterm' = NoSignal
    /\ error' = "FileNotFoundError"

\* refresh_fd_list() of the new directory returned
Listed ==
    /\ ~StatRaises(current_dir')
    /\ loop' = loop

\* KEY_RESIZE: refresh_sizes() then set_cursor(get_index()); the terminal
\* keeps at least one row for the list (curses.LINES >= 4)
KeyResize(lines) ==
    /\ Read("KEY_RESIZE")
    /\ avail_lines' = lines
    /\ UNCHANGED <<navi, fd_list_filtered, filters, launcher, loop>>
    /\ Jump(get_index)

\* KEY_DOWN; the guard keeps the index, which the code lets run past the end
\* of the list, within MaxStale of it
KeyDown ==
    /\ Read("KEY_DOWN")
    /\ get_index < N + MaxStale
    /\ cursor' = input_down(cursor, offset, N, avail_lines)[1]
    /\ offset' = input_down(cursor, offset, N, avail_lines)[2]
    /\ Plain
    /\ UNCHANGED <<navi, fd_list_filtered, filters, avail_lines, launcher, loop>>

KeyUp ==
    /\ Read("KEY_UP")
    /\ cursor' = input_up(cursor, offset)[1]
    /\ offset' = input_up(cursor, offset)[2]
    /\ Plain
    /\ UNCHANGED <<navi, fd_list_filtered, filters, avail_lines, launcher, loop>>

\* KEY_LEFT that also switches the hidden entries off
KeyLeftHidesHidden ==
    /\ Read("KEY_LEFT")
    /\ current_dir' = up(current_dir)
    /\ filter_text' = <<>>
    /\ filter_show_dirs' = TRUE
    /\ filter_show_hidden' = FALSE
    /\ UNCHANGED <<filter_exts, avail_lines, launcher>>
    /\ \/ /\ Listed
          /\ Relist
          /\ Jump(get_index_by_name(fd_list_filtered', basename(current_dir)))
       \/ ListFailed

KeyLeft ==
    /\ Read("KEY_LEFT")
    /\ current_dir' = up(current_dir)
    /\ filter_text' = <<>>
    /\ filter_show_dirs' = TRUE
    /\ UNCHANGED <<filter_show_hidden, filter_exts, avail_lines, launcher>>
    /\ \/ /\ Listed
          /\ Relist
          /\ Jump(get_index_by_name(fd_list_filtered', basename(current_dir)))
       \/ ListFailed

\* list[i] as Python indexes it; list[i] raises IndexError unless HasIndex
HasIndex(list, i) == -Len(list) <= i /\ i < Len(list)

AtIndex(list, i) == IF i >= 0 THEN list[i + 1] ELSE list[Len(list) + i + 1]

get_cursor_item == AtIndex(fd_list_filtered, get_index)

\* choose: get_cursor_item() raised IndexError
ChooseNothing ==
    /\ ~HasIndex(fd_list_filtered, get_index)
    /\ Plain
    /\ UNCHANGED <<navi, fd_list_filtered, filters, viewport, launcher, loop>>

\* choose: the item is a directory
ChooseDir ==
    /\ HasIndex(fd_list_filtered, get_index)
    /\ get_cursor_item.is_dir
    /\ current_dir' = cd(current_dir, get_cursor_item.name)
    /\ filter_text' = <<>>
    /\ UNCHANGED <<filter_show_dirs, filter_show_hidden, filter_exts,
                   avail_lines, launcher>>
    /\ \/ /\ Listed
          /\ Relist
          /\ cursor' = reset_index[1]
          /\ offset' = reset_index[2]
          /\ target' = NoTarget
          /\ last_cmd' = NoCmd
          /\ entered' = get_cursor_item.name
          /\ sigterm' = NoSignal
          /\ error' = "none"
       \/ ListFailed

\* choose on a subtitle file that always sets sub_path
ChooseSub_no_toggle ==
    /\ HasIndex(fd_list_filtered, get_index)
    /\ ~get_cursor_item.is_dir
    /\ get_ext(get_cursor_item.name) \in SUB_EXTS
    /\ sub_path' = get_cursor_item.full
    /\ Plain
    /\ UNCHANGED <<navi, fd_list_filtered, filters, viewport,
                   last_item, pids, alive, spawned, loop>>

\* choose: the item is a subtitle file
ChooseSub ==
    /\ HasIndex(fd_list_filtered, get_index)
    /\ ~get_cursor_item.is_dir
    /\ get_ext(get_cursor_item.name) \in SUB_EXTS
    /\ sub_path' = IF sub_path # get_cursor_item.full THEN get_cursor_item.full ELSE <<>>
    /\ Plain
    /\ UNCHANGED <<navi, fd_list_filtered, filters, viewport,
                   last_item, pids, alive, spawned, loop>>

\* choose: the item is a file mpv is started on
ChooseFile(with_save, mpv_paused) ==
    /\ HasIndex(fd_list_filtered, get_index)
    /\ ~get_cursor_item.is_dir
    /\ get_ext(get_cursor_item.name) \notin SUB_EXTS
    /\ \/ /\ Started(IF get_ext(get_cursor_item.name) = ISO_EXT
                     THEN mpv_open_iso(get_cursor_item.full, get_cursor_item.size, mpv_paused)
                     ELSE mpv_open(get_cursor_item.full, sub_path, mpv_paused))
          /\ last_item' = IF with_save THEN get_cursor_item.full ELSE last_item
          /\ UNCHANGED <<navi, fd_list_filtered, filters, viewport, sub_path, loop>>
       \/ Raised

choose(with_save, mpv_paused) ==
    \/ ChooseNothing
    \/ ChooseDir
    \/ ChooseSub
    \/ ChooseFile(with_save, mpv_paused)

KeyRight ==
    /\ Read("KEY_RIGHT")
    /\ choose(FALSE, FALSE)

KeyEnter ==
    /\ Read("KEY_ENTER")
    /\ choose(TRUE, TRUE)

\* KEY_HOME or KEY_PPAGE
KeyHome ==
    /\ Read("KEY_HOME")
    /\ Reset
    /\ UNCHANGED <<navi, fd_list_filtered, filters, avail_lines, launcher, loop>>

\* KEY_END or KEY_NPAGE
KeyEnd ==
    /\ Read("KEY_END")
    /\ UNCHANGED <<navi, fd_list_filtered, filters, avail_lines, launcher, loop>>
    /\ Jump(Len(fd_list_filtered) - 1)

\* check_pids that drops nothing
check_pids_keeps_all(ps, live) == ps

\* App.check_pids: the pids whose process exists
check_pids(ps, live) == SelectSeq(ps, LAMBDA p : p \in live)

KeyF5 ==
    /\ Read("KEY_F5")
    /\ pids' = check_pids(pids, alive)
    /\ UNCHANGED <<current_dir, filters, avail_lines,
                   last_item, sub_path, alive, spawned>>
    /\ \/ /\ Listed
          /\ Relist
          /\ Reset
       \/ ListFailed

KeyF6 ==
    /\ Read("KEY_F6")
    /\ filter_show_dirs' = ~filter_show_dirs
    /\ UNCHANGED <<current_dir, filter_show_hidden, filter_exts, filter_text,
                   avail_lines, launcher, loop>>
    /\ Refilter
    /\ Reset

KeyF7 ==
    /\ Read("KEY_F7")
    /\ filter_show_hidden' = ~filter_show_hidden
    /\ UNCHANGED <<current_dir, filter_show_dirs, filter_exts, filter_text,
                   avail_lines, launcher, loop>>
    /\ Refilter
    /\ Reset

\* KEY_F8: restore_last_item()
KeyF8 ==
    /\ Read("KEY_F8")
    /\ UNCHANGED <<filters, avail_lines, launcher>>
    /\ IF IsFile(last_item)
       THEN /\ current_dir' = set_current_dir(current_dir, dirname(last_item))
            /\ \/ /\ Listed
                  /\ Relist
                  /\ Jump(get_index_by_name(fd_list_filtered', basename(last_item)))
               \/ ListFailed
       ELSE /\ Plain
            /\ UNCHANGED <<current_dir, fd_list, fd_list_filtered, cursor, offset, loop>>

\* KEY_F9: mpv is started on the current directory
KeyF9 ==
    /\ Read("KEY_F9")
    /\ \/ /\ Started(mpv_open(current_dir, <<>>, FALSE))
          /\ UNCHANGED <<navi, fd_list_filtered, filters, viewport,
                         last_item, sub_path, loop>>
       \/ Raised

KeyF10 ==
    /\ Read("KEY_F10")
    /\ sub_path' = <<>>
    /\ Plain
    /\ UNCHANGED <<navi, fd_list_filtered, filters, viewport,
                   last_item, pids, alive, spawned, loop>>

\* KEY_F11: close_last_mpv().  SIGTERM ends the process; a process that
\* ends by itself between check_pids and os.kill makes os.kill raise
\* ProcessLookupError, which close_last_mpv catches.
KeyF11 ==
    /\ Read("KEY_F11")
    /\ LET live == check_pids(pids, alive)
       IN  IF live = <<>>
           THEN /\ pids' = live
                /\ alive' = alive
                /\ sigterm' = NoSignal
           ELSE /\ pids' = Front(live)
                /\ alive' = alive \ {Last(live)}
                /\ \E delivered \in BOOLEAN :
                      sigterm' = [pid |-> Last(live), delivered |-> delivered]
    /\ target' = NoTarget
    /\ last_cmd' = NoCmd
    /\ entered' = <<>>
    /\ error' = "none"
    /\ UNCHANGED <<navi, fd_list_filtered, filters, viewport,
                   last_item, sub_path, spawned, loop>>

\* KEY_F12: input returns True and loop ends
KeyF12 ==
    /\ Read("KEY_F12")
    /\ loop' = "exited"
    /\ Plain
    /\ UNCHANGED <<navi, fd_list_filtered, filters, viewport, launcher>>

KeyBackspace ==
    /\ Read("KEY_BACKSPACE")
    /\ filter_text' = Front(filter_text)
    /\ Plain
    /\ UNCHANGED <<current_dir, filter_show_dirs, filter_show_hidden,
                   filter_exts, viewport, launcher, loop>>
    /\ Refilter

\* KEY_DC or KEY_DL
KeyDelete ==
    /\ Read("KEY_DC")
    /\ filter_text' = <<>>
    /\ Plain
    /\ UNCHANGED <<current_dir, filter_show_dirs, filter_show_hidden,
                   filter_exts, viewport, launcher, loop>>
    /\ Refilter

\* a letter, a digit, a punctuation character or the space
KeyChar(ch) ==
    /\ Read(ch)
    /\ Len(filter_text) < MaxText
    /\ filter_text' = Append(filter_text, ch)
    /\ UNCHANGED <<current_dir, filter_show_dirs, filter_show_hidden,
                   filter_exts, avail_lines, launcher, loop>>
    /\ Refilter
    /\ Reset

\* a started mpv process ends by itself and is gone from /proc
ProcessExit(pid) ==
    /\ pid \in alive
    /\ alive' = alive \ {pid}
    /\ UNCHANGED <<navi, fd_list_filtered, filters, viewport,
                   last_item, sub_path, pids, spawned, loop, event>>

\* the key events that move through the file system, edit the filters or move
\* the cursor
NextNav ==
    \/ \E lines \in 1..MaxLines : KeyResize(lines)
    \/ KeyDown
    \/ KeyUp
    \/ KeyLeft
    \/ KeyRight
    \/ KeyEnter
    \/ KeyHome
    \/ KeyEnd
    \/ KeyF5
    \/ KeyF6
    \/ KeyF7
    \/ KeyF8
    \/ KeyBackspace
    \/ KeyDelete
    \/ \E ch \in TypeChars : KeyChar(ch)

\* the other key events, and the processes ending
NextRest ==
    \/ KeyF9
    \/ KeyF10
    \/ KeyF11
    \/ KeyF12
    \/ \E pid \in 1..MaxSpawn : ProcessExit(pid)

Next == NextNav \/ NextRest

\* the whole program
Spec == Init /\ [][Next]_vars

\* the runs in which only the keys of NextNav are pressed: the keys of
\* NextRest change none of current_dir, the lists, the filters, cursor, offset
\* and avail_lines
SpecNav == Init /\ [][NextNav]_vars

\* the runs in which entries are only selected and chosen, and mpv processes
\* are started, closed and end by themselves
NextLaunch ==
    \/ KeyDown
    \/ KeyUp
    \/ KeyRight
    \/ KeyEnter
    \/ KeyF9
    \/ KeyF10
    \/ KeyF11
    \/ KeyF12
    \/ \E pid \in 1..MaxSpawn : ProcessExit(pid)

SpecLaunch == Init /\ [][NextLaunch]_vars

\* ------------------------------------------- listing and filter functions
\* refresh_fd_list, refresh_fd_list_filtered and search_by_words on their
\* own: the program is started in /lost+found, and the filters are any of
\* the values below when the list is filtered.
ExtSets == {{}, MPV_EXTENSIONS, {<<"m","p","3">>}, {<<"t","x","t">>}}

Terms == { <<>>,
           <<"f","o","o">>,
           <<"F","O","O">>,
           <<"b","a","r">>,
           <<"f","o","o"," ","b","a","r">>,
           <<"b","a","r"," ","f","o","o">>,
           <<"b","a","r"," ","F","o","o"," ","b","a","r">>,
           <<"F","o","o"," ","b","a","r"," ","b","a","r">>,
           <<"o"," "," ","f">>,
           <<"f"," ","o"," ">>,
           <<"m","k","v"," ","v">>,
           <<"v"," ","m","k","v">> }

InitFilter ==
    /\ current_dir = set_current_dir(<<>>, <<nLF>>)
    /\ fd_list = refresh_fd_list(current_dir)
    /\ fd_list_filtered = <<>>
    /\ filter_show_dirs \in BOOLEAN
    /\ filter_show_hidden \in BOOLEAN
    /\ filter_exts \in ExtSets
    /\ filter_text \in Terms
    /\ avail_lines \in 1..MaxLines
    /\ cursor = 0
    /\ offset = 0
    /\ last_item = <<>>
    /\ sub_path = <<>>
    /\ pids = <<>>
    /\ alive = {}
    /\ spawned = 0
    /\ loop = "running"
    /\ wch = "none"
    /\ target = NoTarget
    /\ last_cmd = NoCmd
    /\ entered = <<>>
    /\ sigterm = NoSignal
    /\ error = "none"

\* a call of refresh_fd_list_filtered()
RefreshFiltered ==
    /\ Read("refresh_fd_list_filtered")
    /\ UNCHANGED <<current_dir, filters, viewport, launcher, loop>>
    /\ Refilter
    /\ Plain

NextFilter ==
    \/ RefreshFiltered
    \/ KeyF5
    \/ KeyF6
    \/ KeyF7
    \/ KeyBackspace
    \/ KeyDelete

SpecFilter == InitFilter /\ [][NextFilter]_vars

\* ------------------------------------------------ viewport specification
\* The viewport controller alone: a directory of n tracks that all pass the
\* filters, so that the list keeps its n entries, and the operations on
\* cursor and offset, set_cursor being called with any index.
nTracks == <<"t">>

Track(k) ==
    LET name == [i \in 1..k |-> "t"] \o <<".","m","p","3">>
    IN  [is_dir |-> FALSE, name |-> name, full |-> <<nTracks, name>>, size |-> 100]

TrackList(n) == [k \in 1..n |-> Track(k)]

\* the indexes set_cursor is called with
Targets == (0 - 2)..(MaxN + 1)

InitVP ==
    /\ current_dir = <<nTracks>>
    /\ \E n \in 0..MaxN : fd_list = TrackList(n)
    /\ filter_show_dirs = TRUE
    /\ filter_show_hidden = FALSE
    /\ filter_exts = MPV_EXTENSIONS
    /\ filter_text = <<>>
    /\ fd_list_filtered =
          refresh_fd_list_filtered(fd_list, filter_show_dirs, filter_show_hidden,
                                   filter_exts, filter_text)
    /\ avail_lines \in 1..MaxR
    /\ cursor = 0
    /\ offset = 0
    /\ last_item = <<>>
    /\ sub_path = <<>>
    /\ pids = <<>>
    /\ alive = {}
    /\ spawned = 0
    /\ loop = "running"
    /\ wch = "none"
    /\ target = NoTarget
    /\ last_cmd = NoCmd
    /\ entered = <<>>
    /\ sigterm = NoSignal
    /\ error = "none"

\* a call of set_cursor(index)
SetCursor(index) ==
    /\ Read("set_cursor")
    /\ UNCHANGED <<navi, fd_list_filtered, filters, avail_lines, launcher, loop>>
    /\ Jump(index)

NextVP ==
    \/ KeyDown
    \/ KeyUp
    \/ KeyHome
    \/ \E index \in Targets : SetCursor(index)
    \/ \E lines \in 1..MaxR : KeyResize(lines)

SpecVP == InitVP /\ [][NextVP]_vars

\* ------------------------------------------------------------- properties
\* the event read last was a launch key
LaunchKey == wch \in {"KEY_RIGHT", "KEY_ENTER", "KEY_F9"}

ValidTarget == 0 <= target /\ target <= N - 1

Max0(x) == IF x > 0 THEN x ELSE 0

\* C1: after every key event cursor+offset is a valid index into
\* fd_list_filtered when that list is non-empty, and is 0 when it is empty.
C1_IndexValid ==
    IF N = 0 THEN get_index = 0 ELSE 0 <= get_index /\ get_index < N

\* C2: for a fixed list of N entries, from cursor = 0 and offset = 0, after
\* any sequence of move down, move up, reset, set_cursor(any index) and resize:
\* 0 <= cursor <= avail_lines - 1, offset >= 0 and 0 <= cursor+offset < N
\* (cursor+offset = 0 when N = 0).
C2_ViewportInvariant ==
    /\ 0 <= cursor
    /\ cursor <= avail_lines - 1
    /\ offset >= 0
    /\ IF N = 0 THEN get_index = 0 ELSE 0 <= get_index /\ get_index < N

\* C3 as stated: a valid target beyond the first page and within
\* avail_lines - 1 of the list end gets cursor = R-1-(N-1-target) and
\* offset = target - cursor.
C3_LastPageAsStated ==
    (/\ target # NoTarget
     /\ ValidTarget
     /\ target > avail_lines - 1
     /\ N - 1 - target <= avail_lines - 1)
    => (/\ cursor = avail_lines - 1 - (N - 1 - target)
        /\ offset = target - cursor)

\* C3 amended: a valid target beyond the first page and within
\* avail_lines - 3 of the list end (target >= N - R + 2) gets
\* cursor = R-1-(N-1-target) and offset = target - cursor, so that the last
\* row of the window is the last entry of the list.
C3_LastPage ==
    (/\ target # NoTarget
     /\ ValidTarget
     /\ target > avail_lines - 1
     /\ N - 1 - target <= avail_lines - 3)
    => (/\ cursor = avail_lines - 1 - (N - 1 - target)
        /\ offset = target - cursor
        /\ offset + avail_lines - 1 = N - 1)

\* Scenario 1 of the specification: 5 entries, 3 rows, set_cursor(4).
C3_Witness ==
    /\ wch = "set_cursor"
    /\ N = 5
    /\ avail_lines = 3
    /\ target = 4
    /\ cursor = 2
    /\ offset = 2

\* C4: after set_cursor with a valid target cursor+offset is the target, and
\* a target on neither the first nor the last page gets cursor = R \div 2;
\* with 100 entries and 10 rows set_cursor(50) gives cursor 5 and offset 45.
C4_JumpSelectsTarget ==
    /\ (target # NoTarget /\ ValidTarget)
       => (/\ get_index = target
           /\ (target > avail_lines - 1 /\ N - 1 - target > avail_lines - 1)
              => cursor = avail_lines \div 2)
    /\ \A c \in 0..2, o \in 0..2 : set_cursor(c, o, 100, 10, 50) = <<5, 45>>

\* a centred target under an odd number of rows
C4_Witness ==
    /\ wch = "set_cursor"
    /\ ValidTarget
    /\ target > avail_lines - 1
    /\ N - 1 - target > avail_lines - 1
    /\ avail_lines = 5
    /\ cursor = 2
    /\ get_index = target

\* C5: after set_cursor with a valid target the window does not run past
\* the end of the list: offset <= max(0, N - R).
C5_NoBlankRows ==
    (target # NoTarget /\ ValidTarget) => offset <= Max0(N - avail_lines)

\* the target is the last entry of a list longer than the window
C5_Witness ==
    /\ wch = "set_cursor"
    /\ N > avail_lines
    /\ target = N - 1
    /\ avail_lines >= 3
    /\ offset = N - avail_lines

\* C6: a resize to any number of rows, from a state whose cursor+offset is a
\* valid index, leaves cursor+offset unchanged and gives
\* 0 <= cursor <= avail_lines - 1.
C6_ResizeKeepsSelection ==
    [][(wch' = "KEY_RESIZE" /\ 0 <= get_index /\ get_index < N)
       => (/\ cursor' + offset' = cursor + offset
           /\ 0 <= cursor'
           /\ cursor' <= avail_lines' - 1)]_vars

\* a resize that had to scroll the window to keep the entry selected
C6_Witness ==
    /\ wch = "KEY_RESIZE"
    /\ ValidTarget
    /\ get_index = target
    /\ target > avail_lines - 1
    /\ offset > 0

\* C7: move down on the last index, move up on index 0 and set_cursor with an
\* index < 0 or >= N change neither cursor nor offset.
C7_BoundaryNoOp ==
    [][/\ (wch' = "KEY_DOWN" /\ N >= 1 /\ get_index = N - 1)
          => UNCHANGED <<cursor, offset>>
       /\ (wch' = "KEY_UP" /\ get_index = 0)
          => UNCHANGED <<cursor, offset>>
       /\ (wch' = "set_cursor" /\ (target' < 0 \/ target' >= N))
          => UNCHANGED <<cursor, offset>>]_vars

\* set_cursor was called with an index past the end while the window was
\* scrolled, and the window is still scrolled
C7_Witness ==
    /\ wch = "set_cursor"
    /\ target >= N
    /\ N >= 1
    /\ cursor > 0
    /\ offset > 0

\* C8: set_cursor is idempotent: in the state one call leaves, a second call
\* with the same index changes nothing.
C8_JumpIdempotent ==
    target # NoTarget
    => set_cursor(cursor, offset, N, avail_lines, target) = <<cursor, offset>>

\* a call that scrolled the window
C8_Witness ==
    /\ wch = "set_cursor"
    /\ ValidTarget
    /\ offset > 0
    /\ cursor > 0

\* C9: every key event that changes the current directory leaves
\* filter_text empty.
C9_DirChangeClearsText ==
    [][current_dir' # current_dir => filter_text' = <<>>]_vars

\* C10 as stated: every key event that changes the current directory leaves
\* filter_show_dirs, filter_show_hidden and filter_exts unchanged.
C10_DirChangeKeepsFiltersAsStated ==
    [][current_dir' # current_dir
       => UNCHANGED <<filter_show_dirs, filter_show_hidden, filter_exts>>]_vars

\* C10 amended: every key event that changes the current directory leaves
\* filter_show_hidden and filter_exts unchanged; entering a directory and
\* restoring the remembered item leave filter_show_dirs unchanged too, and
\* leaving to the parent sets it to true.
C10_DirChangeKeepsFilters ==
    [][current_dir' # current_dir
       => (/\ UNCHANGED <<filter_show_hidden, filter_exts>>
           /\ IF wch' = "KEY_LEFT"
              THEN filter_show_dirs'
              ELSE filter_show_dirs' = filter_show_dirs)]_vars

\* KEY_LEFT moved to the parent (the directory left was found in its list)
\* while hidden entries were shown
C10_Witness ==
    /\ wch = "KEY_LEFT"
    /\ target >= 0
    /\ filter_show_hidden
    /\ filter_show_dirs
    /\ current_dir = <<>>

\* C11: a key event whose start of mpv failed leaves the event loop running.
C11_SpawnFailureKeepsLoop ==
    (LaunchKey /\ error = "OSError") => loop = "running"

\* C12: an exception of os.listdir or of os.stat while a directory is listed
\* never ends the event loop, and a directory that os.listdir cannot read
\* gives an empty fd_list.
C12_ListingFailureSoft ==
    /\ error = "FileNotFoundError" => loop = "running"
    /\ ListdirRaises(current_dir) => (fd_list = <<>> /\ loop # "crashed")

\* the names of a list of entries
Names(list) == {list[i].name : i \in 1..Len(list)}

C14_ExtensionsRestrictFilesOnly ==
    (wch # "none" /\ filter_exts # {})
    => /\ \A i \in 1..Len(fd_list_filtered) :
             \/ fd_list_filtered[i].is_dir
             \/ get_ext(fd_list_filtered[i].name) \in filter_exts
       /\ \A i \in 1..Len(fd_list) :
             (/\ fd_list[i].is_dir
              /\ filter_show_dirs
              /\ filter_show_hidden \/ ~is_hidden(fd_list[i].name)
              /\ filter_text = <<>> \/ search_by_words(filter_text, fd_list[i].name))
             => fd_list[i].name \in Names(fd_list_filtered)

\* only mp3 files are allowed; the directories a.txt and v.mkv are shown
\* beside the one mp3 file, and the files foo and xbarfooy are not
C14_Witness ==
    /\ wch = "refresh_fd_list_filtered"
    /\ filter_exts = {<<"m","p","3">>}
    /\ filter_show_dirs
    /\ filter_text = <<>>
    /\ {nA, nV, nFooBar} \subseteq Names(fd_list_filtered)
    /\ nFoo \notin Names(fd_list_filtered)
    /\ nXbar \notin Names(fd_list_filtered)

\* the words of a term, as the stretches between its spaces, and how often a
\* word occurs among them
WordSpans(term) ==
    LET cuts == {0, Len(term) + 1} \cup {i \in 1..Len(term) : term[i] = " "}
    IN  {p \in cuts \X cuts : p[1] < p[2] /\ \A c \in cuts : ~(p[1] < c /\ c < p[2])}

WordCount(term, w) ==
    Cardinality({p \in WordSpans(term) : SubSeq(term, p[1] + 1, p[2] - 1) = w})

Words(term) == {SubSeq(term, p[1] + 1, p[2] - 1) : p \in WordSpans(term)}

\* t2 holds the words of t1 in another order
Permuted(t1, t2) ==
    \A w \in Words(t1) \cup Words(t2) : WordCount(t1, w) = WordCount(t2, w)

\* every space-separated word of term is a substring of name, case ignored
AllWordsIn(term, name) ==
    \A w \in Words(term) : IsSubstring(Casefold(w), Casefold(name))

\* the entries of fd_list that pass the tests other than the search text
PassOthers ==
    {i \in 1..Len(fd_list) :
        Passes(fd_list[i], filter_show_dirs, filter_show_hidden, filter_exts, <<>>)}

\* C15: search_by_words(term, name) is true iff every space-separated word of
\* term is a substring of name, case ignored: an entry that passes the other
\* tests is in fd_list_filtered iff all words of filter_text are in its name;
\* a term with the same words in another order gives the same
\* fd_list_filtered; the empty term matches every name; "foo bar" matches
\* "xbarfooy" and does not match "foo".
C15_WordMatch ==
    /\ wch # "none"
       => /\ \A i \in PassOthers :
                fd_list[i].name \in Names(fd_list_filtered)
                <=> AllWordsIn(filter_text, fd_list[i].name)
          /\ \A t2 \in Terms :
                Permuted(filter_text, t2)
                => refresh_fd_list_filtered(fd_list, filter_show_dirs,
                                            filter_show_hidden, filter_exts, t2)
                   = fd_list_filtered
    /\ \A i \in 1..Len(fd_list) :
          /\ search_by_words(filter_text, fd_list[i].name)
             <=> AllWordsIn(filter_text, fd_list[i].name)
          /\ search_by_words(<<>>, fd_list[i].name)
    /\ search_by_words(<<"f","o","o"," ","b","a","r">>, nXbar)
    /\ ~search_by_words(<<"f","o","o"," ","b","a","r">>, nFoo)

\* the list was filtered by "bar Foo bar": xbarfooy and "Foo Bar.mp3" are
\* shown, foo is not
C15_Witness ==
    /\ wch = "refresh_fd_list_filtered"
    /\ filter_text = <<"b","a","r"," ","F","o","o"," ","b","a","r">>
    /\ filter_exts = {}
    /\ Names(fd_list_filtered) = {nFooBar, nXbar}
    /\ \E t2 \in Terms : t2 # filter_text /\ Permuted(filter_text, t2)

\* the entry under the cursor is a subtitle file
OnSubtitle ==
    /\ HasIndex(fd_list_filtered, get_index)
    /\ ~get_cursor_item.is_dir
    /\ get_ext(get_cursor_item.name) \in SUB_EXTS

\* C16 as stated: KEY_RIGHT or Enter on a subtitle file starts no process,
\* leaves pids and last_item unchanged, and its only effect is that sub_path
\* is that file's full path afterwards.
C16_SubtitleOnlyArms ==
    [][((KeyRight \/ KeyEnter) /\ OnSubtitle)
       => (/\ sub_path' = get_cursor_item.full
           /\ last_cmd' = NoCmd
           /\ UNCHANGED <<navi, fd_list_filtered, filters, viewport,
                          last_item, pids, alive, spawned, loop>>)]_vars

\* C16 amended: KEY_RIGHT or Enter on a subtitle file starts no process,
\* leaves pids and last_item unchanged, and its only effect is on sub_path,
\* which becomes that file's full path, or becomes empty when it was that
\* file's full path already.
C16_SubtitleToggles ==
    [][((KeyRight \/ KeyEnter) /\ OnSubtitle)
       => (/\ sub_path' = IF sub_path = get_cursor_item.full
                          THEN <<>> ELSE get_cursor_item.full
           /\ last_cmd' = NoCmd
           /\ UNCHANGED <<navi, fd_list_filtered, filters, viewport,
                          last_item, pids, alive, spawned, loop>>)]_vars

\* Enter on the subtitle file armed it while a started process is tracked
\* and another item is remembered
C16_Witness ==
    /\ wch = "KEY_ENTER"
    /\ OnSubtitle
    /\ sub_path = get_cursor_item.full
    /\ pids # <<>>
    /\ last_item # <<>>
    /\ last_item # sub_path
    /\ last_cmd = NoCmd

\* App.draw: the rows of the list, and whether one of them is drawn reversed
\* (the row whose number is cursor)
DrawnRows == fixed_len_slice(fd_list_filtered, avail_lines, offset)

\* C17: while the loop runs and fd_list_filtered is not empty, the entry
\* choose acts on, fd_list_filtered[cursor + offset], exists and is the entry
\* draw shows reversed, row cursor of the slice it draws.
C17_HighlightIsSelection ==
    (loop = "running" /\ N > 0)
    => /\ HasIndex(fd_list_filtered, get_index)
       /\ cursor < Len(DrawnRows)
       /\ DrawnRows[cursor + 1] = get_cursor_item

\* C18: when a file that is no subtitle is started by KEY_RIGHT or Enter while
\* sub_path is set, the command started carries sub_path as its --sub-file
\* option.
C18_LaunchCarriesSubtitle ==
    (wch \in {"KEY_RIGHT", "KEY_ENTER"} /\ last_cmd # NoCmd /\ sub_path # <<>>)
    => last_cmd.sub_file = sub_path

\* the tracked pids whose process exists
Remaining == {pids[i] : i \in 1..Len(pids)} \cap alive

\* the pid started last among them (pids are numbered in the order of start)
Newest(ps) == CHOOSE p \in ps : \A q \in ps : q <= p

\* C19: KEY_F11 drops every tracked pid whose process is gone; if a pid
\* remains, it removes exactly the one started last and calls os.kill on it,
\* and whether the signal is delivered or the process is gone by then, the
\* pid is removed and the loop runs on; if none remains, os.kill is not
\* called and pids is empty.
C19_CloseMostRecent ==
    [][KeyF11
       => IF Remaining = {}
          THEN /\ pids' = <<>>
               /\ sigterm' = NoSignal
               /\ loop' = "running"
          ELSE /\ sigterm'.pid = Newest(Remaining)
               /\ {pids'[i] : i \in 1..Len(pids')} = Remaining \ {Newest(Remaining)}
               /\ Len(pids') = Cardinality(Remaining) - 1
               /\ \A i, j \in 1..Len(pids') : i < j => pids'[i] < pids'[j]
               /\ loop' = "running"]_vars

\* two processes were started, the second ended by itself, and F11 called
\* os.kill on the first, which was gone by then
C19_Witness ==
    /\ wch = "KEY_F11"
    /\ spawned = 2
    /\ sigterm = [pid |-> 1, delivered |-> FALSE]
    /\ pids = <<>>
    /\ alive = {}
    /\ loop = "running"

\* C20: KEY_LEFT right after KEY_RIGHT or Enter entered the directory D gives
\* back the directory D was listed in, and fd_list_filtered[cursor + offset]
\* is D.
C20_EnterThenLeave ==
    [][(entered # <<>> /\ wch \in {"KEY_RIGHT", "KEY_ENTER"} /\ wch' = "KEY_LEFT")
       => (/\ current_dir = Append(current_dir', entered)
           /\ loop' = "running"
           /\ 0 <= cursor' + offset'
           /\ cursor' + offset' < Len(fd_list_filtered')
           /\ fd_list_filtered'[cursor' + offset' + 1].name = entered
           /\ fd_list_filtered'[cursor' + offset' + 1].is_dir)]_vars

\* KEY_LEFT came back to / and found m, which is not the first entry
C20_Witness ==
    /\ wch = "KEY_LEFT"
    /\ current_dir = <<>>
    /\ target >= 1
    /\ get_index = target
    /\ HasIndex(fd_list_filtered, get_index)
    /\ get_cursor_item.name = nM
    /\ get_cursor_item.is_dir
    /\ spawned > 0

\* the extension of name is one of exts when letter case is ignored
ExtAllowedAnyCase(name, exts) ==
    \E a \in exts : Casefold(a) = Casefold(get_ext(name))

\* C21: the extension test ignores letter case: a file of fd_list whose
\* extension equals one of filter_exts up to case (MP3 for mp3), and which
\* passes the show_hidden and filter_text tests, is in fd_list_filtered.
C21_ExtensionAnyCase ==
    loop = "running"
    => \A i \in 1..Len(fd_list) :
          (/\ ~fd_list[i].is_dir
           /\ ExtAllowedAnyCase(fd_list[i].name, filter_exts)
           /\ filter_show_hidden \/ ~is_hidden(fd_list[i].name)
           /\ filter_text = <<>> \/ search_by_words(filter_text, fd_list[i].name))
          => fd_list[i].name \in Names(fd_list_filtered)

====
